---- MODULE Spec2Model ----
(***************************************************************************)
(* Courses REST API (src/index.js, second variant, lines 335-771):         *)
(* Express handlers over one PostgreSQL table "courses".  Every handler is *)
(* an async function; each `await pool.query(..)` is one autocommitted     *)
(* statement and the only point where another in-flight request may run.   *)
(* An action below is one such segment: the statement together with the    *)
(* synchronous code that follows it up to the next await or the response.  *)
(***************************************************************************)
EXTENDS Integers, Sequences, FiniteSets, TLC

\* Number of successful INSERTs explored (also the number of created_at values)
\* when requests are served one at a time, and when they interleave.
MaxCreates == 4
MaxCreatesInterleaved == 2
\* Number of storage statements that may fail for reasons outside the table
\* state (connection loss and the like) in one behaviour.
MaxFaults == 2

\* Courses the file of the file-backed server holds at most.
MaxFileLen == 4

\* In-flight request slots (HTTP requests being served at the same time).
Clients == {"c1", "c2"}

VARIABLES
    rows,     \* the live rows of table courses
    seq,      \* next value of courses_id_seq
    pkey,     \* TRUE iff constraint courses_pkey exists
    clock,    \* NOW() of the store, counted in inserts
    faults,   \* storage faults injected so far
    req,      \* per slot: the handler's locals, position and response
    serial,   \* TRUE: requests are served one at a time (no interleaving)
    table,    \* TRUE iff table courses exists
    file      \* content of data.json (file-backed server): the list of courses

vars == <<rows, seq, pkey, clock, faults, req, serial, table, file>>

----------------------------------------------------------------------------
\* JSON values of a request body, and what JavaScript does with them.

Undef == [t |-> "undef", s |-> <<>>]
Str(s) == [t |-> "str", s |-> s]
Num(s) == [t |-> "num", s |-> s]

WhiteSpace == {" "}

RECURSIVE TrimStart(_)
TrimStart(s) ==
    IF s = <<>> THEN s
    ELSE IF Head(s) \in WhiteSpace THEN TrimStart(Tail(s)) ELSE s

RECURSIVE TrimEnd(_)
TrimEnd(s) ==
    IF s = <<>> THEN s
    ELSE IF s[Len(s)] \in WhiteSpace THEN TrimEnd(SubSeq(s, 1, Len(s) - 1)) ELSE s

\* String.prototype.trim
Trim(s) == TrimEnd(TrimStart(s))

\* !v
Falsy(v) ==
    \/ v.t = "undef"
    \/ v.t = "str" /\ v.s = <<>>
    \/ v.t = "num" /\ v.s = <<"0">>

\* Mutant: the validation without trim().
TitleCheckNoTrim(v) ==
    IF Falsy(v) THEN "invalid"
    ELSE IF v.t # "str" THEN "throw"
    ELSE "ok"

\* if (!title || title.trim() === '') : "invalid" answers 400, "throw" is the
\* TypeError of calling trim on a non-string, "ok" falls through.
TitleCheck(v) ==
    IF Falsy(v) THEN "invalid"
    ELSE IF v.t # "str" THEN "throw"
    ELSE IF Trim(v.s) = <<>> THEN "invalid"
    ELSE "ok"

FullBody(t) ==
    [title |-> t,
     description |-> Str(<<"d">>),
     long_description |-> Str(<<"l">>),
     duration |-> Str(<<"4", "w">>),
     price |-> Num(<<"9">>),
     level |-> Str(<<"e">>),
     image_url |-> Str(<<"u">>)]

MinBody(t) ==
    [title |-> t,
     description |-> Undef,
     long_description |-> Undef,
     duration |-> Undef,
     price |-> Undef,
     level |-> Undef,
     image_url |-> Undef]

NoBody == MinBody(Undef)

\* Request bodies tried: complete, title only, title absent, empty, blank,
\* and a title that is not a string.
Bodies ==
    {FullBody(Str(<<"A">>)), MinBody(Str(<<" ", "B">>)), MinBody(Undef),
     FullBody(Str(<<>>)), FullBody(Str(<<" ", " ">>)), MinBody(Num(<<"7">>))}

\* Bodies sent with PUT.
UpdateBodies ==
    {FullBody(Str(<<"A">>)), MinBody(Str(<<" ", "B">>)), FullBody(Str(<<" ", " ">>))}

----------------------------------------------------------------------------
\* The store: parameter binding, column types, statements.

Null == [t |-> "null", s |-> <<>>]

\* node-pg sends undefined as NULL and everything else as its text.
ToParam(v) == IF v.t = "undef" THEN Null ELSE [t |-> "text", s |-> v.s]

Digits == {"0", "1", "2", "3", "4", "5", "6", "7", "8", "9"}

\* A NUMERIC column accepts NULL or a text that reads as a number.
NumericOk(p) == p.t = "null" \/ (p.s # <<>> /\ \A k \in 1..Len(p.s) : p.s[k] \in Digits)

TextCol(p) == p
NumericCol(p) == IF p.t = "null" THEN Null ELSE [t |-> "numeric", s |-> p.s]

\* The row an INSERT builds: id from the sequence, created_at from NOW().
InsertRow(b, newid, now) ==
    [id |-> newid,
     created_at |-> now,
     title |-> TextCol(ToParam(b.title)),
     description |-> TextCol(ToParam(b.description)),
     long_description |-> TextCol(ToParam(b.long_description)),
     duration |-> TextCol(ToParam(b.duration)),
     price |-> NumericCol(ToParam(b.price)),
     level |-> TextCol(ToParam(b.level)),
     image_url |-> TextCol(ToParam(b.image_url))]

\* Mutant: a column whose parameter is NULL keeps its value (COALESCE).
UpdateRowKeepOmitted(r, b) ==
    LET keep(new, old) == IF new = Null THEN old ELSE new
    IN  [r EXCEPT
            !.title = keep(TextCol(ToParam(b.title)), @),
            !.description = keep(TextCol(ToParam(b.description)), @),
            !.long_description = keep(TextCol(ToParam(b.long_description)), @),
            !.duration = keep(TextCol(ToParam(b.duration)), @),
            !.price = keep(NumericCol(ToParam(b.price)), @),
            !.level = keep(TextCol(ToParam(b.level)), @),
            !.image_url = keep(TextCol(ToParam(b.image_url)), @)]

\* UPDATE courses SET title = $1, .., image_url = $7 on one row.
UpdateRow(r, b) ==
    [r EXCEPT
        !.title = TextCol(ToParam(b.title)),
        !.description = TextCol(ToParam(b.description)),
        !.long_description = TextCol(ToParam(b.long_description)),
        !.duration = TextCol(ToParam(b.duration)),
        !.price = NumericCol(ToParam(b.price)),
        !.level = TextCol(ToParam(b.level)),
        !.image_url = TextCol(ToParam(b.image_url))]

\* Mutant: the renumbering statement also rewrites created_at.
RenumberRowTouch(r, newId) == [r EXCEPT !.id = newId, !.created_at = newId]

\* UPDATE courses SET id = $1 on one row.
RenumberRow(r, newId) == [r EXCEPT !.id = newId]

\* WHERE id = $1
Match(id) == {r \in rows : r.id = id}

\* Two rows with one id: what the primary key forbids.
HasDup(S) == \E a \in S : \E b \in S : a # b /\ a.id = b.id

RECURSIVE SeqsOf(_)
SeqsOf(S) ==
    IF S = {} THEN {<<>>}
    ELSE UNION {{<<x>> \o s : s \in SeqsOf(S \ {x})} : x \in S}

\* Mutant: ORDER BY id DESC.
OrderByIdDesc(S) ==
    {s \in SeqsOf(S) : \A k \in 1..(Len(s) - 1) : s[k].id >= s[k + 1].id}

\* ORDER BY id ASC: every order the store may return (ties are unordered).
OrderByIdAsc(S) ==
    {s \in SeqsOf(S) : \A k \in 1..(Len(s) - 1) : s[k].id <= s[k + 1].id}

\* ORDER BY created_at ASC
OrderByCreatedAt(S) ==
    {s \in SeqsOf(S) : \A k \in 1..(Len(s) - 1) : s[k].created_at <= s[k + 1].created_at}

\* RETURNING * followed by result.rows[0]: one of the affected rows, or
\* undefined (the empty sequence) when the statement affected none.
FirstOf(S) == IF S = {} THEN {<<>>} ELSE {<<r>> : r \in S}

\* A statement may fail for a reason outside the table state.  Storage faults
\* are explored for requests served one at a time; interleaved requests fail
\* only where the table state makes a statement fail.
FaultChoices == IF serial /\ faults < MaxFaults THEN {FALSE, TRUE} ELSE {FALSE}

----------------------------------------------------------------------------
\* Request slots.

Absent == 0 - 1

Idle ==
    [op |-> "none", pc |-> "idle", id |-> 0, body |-> NoBody,
     courses |-> <<>>, i |-> 0,
     status |-> 0, success |-> "absent", data |-> <<>>,
     totalCourses |-> Absent, nextId |-> Absent,
     error |-> FALSE,
     \* history, not program state
     stmts |-> 0, faulted |-> FALSE, held |-> FALSE, removed |-> {},
     failedAt |-> "none", restoreTried |-> FALSE, affected |-> 0,
     \* the counter as it stood at the reset's SELECT (kept when served alone)
     seqAtSelect |-> Absent]

\* What node-pg hands to JavaScript for a column value: NULL is null, TEXT is
\* a string, and NUMERIC is a string as well (its default type parser keeps
\* the decimal text).
FromCol(v) == IF v.t = "null" THEN Null ELSE Str(v.s)

\* result.rows[k] as the JavaScript object that res.json serialises.
Parsed(r) ==
    [id |-> r.id,
     created_at |-> r.created_at,
     title |-> FromCol(r.title),
     description |-> FromCol(r.description),
     long_description |-> FromCol(r.long_description),
     duration |-> FromCol(r.duration),
     price |-> FromCol(r.price),
     level |-> FromCol(r.level),
     image_url |-> FromCol(r.image_url)]

ParsedRows(d) == [k \in 1..Len(d) |-> Parsed(d[k])]

\* res.status(st).json({.., success, data}): d are the rows of the store's
\* result; every body sent with a status of 400 or more has an error field.
Respond(s, st, ok, d) ==
    [s EXCEPT !.pc = "done", !.status = st, !.success = ok, !.data = d,
              !.error = (st >= 400)]

\* The course objects in the body of slot s's response.
Json(s) == ParsedRows(s.data)

\* One more statement sent to the pool.
Sent(s) == [s EXCEPT !.stmts = @ + 1]

\* The statement failed outside the table state.
Faulted(s) == [s EXCEPT !.faulted = TRUE]

CanStart(c) ==
    /\ req[c].pc = "idle"
    /\ serial => \A d \in Clients : req[d].pc = "idle"

Arrive(c, op, id, body) ==
    [Idle EXCEPT !.op = op, !.id = id, !.body = body, !.held = (Match(id) # {})]

\* Inserts explored in the current mode.
CreateLimit == IF serial THEN MaxCreates ELSE MaxCreatesInterleaved

\* The :id values requested.
Ids == 1..CreateLimit

Init ==
    /\ rows = {}
    /\ seq = 1
    /\ pkey = TRUE
    /\ clock = 0
    /\ faults = 0
    /\ req = [c \in Clients |-> Idle]
    /\ serial = FALSE
    /\ table = TRUE
    /\ file = <<>>

InitSeq ==
    /\ rows = {}
    /\ seq = 1
    /\ pkey = TRUE
    /\ clock = 0
    /\ faults = 0
    /\ req = [c \in Clients |-> Idle]
    /\ serial = TRUE
    /\ table = TRUE
    /\ file = <<>>

----------------------------------------------------------------------------
\* GET /courses

StartList(c) ==
    /\ CanStart(c)
    /\ req' = [req EXCEPT ![c] = [Arrive(c, "list", 0, NoBody) EXCEPT !.pc = "list"]]
    /\ UNCHANGED <<rows, seq, pkey, clock, faults, serial, table, file>>

ListSelect(c) ==
    /\ req[c].pc = "list"
    /\ table
    /\ \E f \in FaultChoices :
        IF f
        THEN /\ req' = [req EXCEPT ![c] = Respond(Faulted(Sent(@)), 500, "absent", <<>>)]
             /\ faults' = faults + 1
        ELSE /\ \E s \in OrderByIdAsc(rows) :
                    req' = [req EXCEPT ![c] = Respond(Sent(@), 200, "absent", s)]
             /\ UNCHANGED faults
    /\ UNCHANGED <<rows, seq, pkey, clock, serial, table, file>>

\* GET /courses/:id

StartGet(c, id) ==
    /\ CanStart(c)
    /\ req' = [req EXCEPT ![c] = [Arrive(c, "get", id, NoBody) EXCEPT !.pc = "get"]]
    /\ UNCHANGED <<rows, seq, pkey, clock, faults, serial, table, file>>

GetSelect(c) ==
    /\ req[c].pc = "get"
    /\ table
    /\ \E f \in FaultChoices :
        IF f
        THEN /\ req' = [req EXCEPT ![c] = Respond(Faulted(Sent(@)), 500, "absent", <<>>)]
             /\ faults' = faults + 1
        ELSE /\ IF Match(req[c].id) = {}
                THEN req' = [req EXCEPT ![c] = Respond(Sent(@), 404, "absent", <<>>)]
                ELSE \E d \in FirstOf(Match(req[c].id)) :
                        req' = [req EXCEPT ![c] = Respond(Sent(@), 200, "absent", d)]
             /\ UNCHANGED faults
    /\ UNCHANGED <<rows, seq, pkey, clock, serial, table, file>>

----------------------------------------------------------------------------
\* POST /courses

Inserting == {d \in Clients : req[d].pc = "insert"}

StartCreate(c, b) ==
    /\ CanStart(c)
    /\ clock + Cardinality(Inserting) < CreateLimit
    /\ LET a == Arrive(c, "create", 0, b)
           v == TitleCheck(b.title)
       IN  req' = [req EXCEPT ![c] =
                CASE v = "invalid" -> Respond(a, 400, "absent", <<>>)
                  [] v = "throw" -> Respond(a, 500, "false", <<>>)
                  [] OTHER -> [a EXCEPT !.pc = "insert"]]
    /\ UNCHANGED <<rows, seq, pkey, clock, faults, serial, table, file>>

CreateInsert(c) ==
    /\ req[c].pc = "insert"
    /\ table
    /\ \E f \in FaultChoices :
        IF f
        THEN /\ req' = [req EXCEPT ![c] = Respond(Faulted(Sent(@)), 500, "false", <<>>)]
             /\ faults' = faults + 1
             /\ UNCHANGED <<rows, seq, clock>>
        ELSE LET b == req[c].body
                 new == InsertRow(b, seq, clock + 1)
             IN  /\ UNCHANGED faults
                 /\ IF ~NumericOk(ToParam(b.price))
                    THEN \* the parameter is rejected before the row is built
                         /\ req' = [req EXCEPT ![c] = Respond(Sent(@), 500, "false", <<>>)]
                         /\ UNCHANGED <<rows, seq, clock>>
                    ELSE IF pkey /\ Match(seq) # {}
                    THEN \* duplicate key: nextval is not rolled back
                         /\ req' = [req EXCEPT ![c] = Respond(Sent(@), 500, "false", <<>>)]
                         /\ seq' = seq + 1
                         /\ UNCHANGED <<rows, clock>>
                    ELSE /\ rows' = rows \cup {new}
                         /\ seq' = seq + 1
                         /\ clock' = clock + 1
                         /\ req' = [req EXCEPT ![c] = Respond(Sent(@), 201, "true", <<new>>)]
    /\ UNCHANGED <<pkey, serial, table, file>>

----------------------------------------------------------------------------
\* PUT /courses/:id

StartUpdate(c, id, b) ==
    /\ CanStart(c)
    /\ LET a == Arrive(c, "update", id, b)
           v == TitleCheck(b.title)
       IN  req' = [req EXCEPT ![c] =
                CASE v = "invalid" -> Respond(a, 400, "absent", <<>>)
                  [] v = "throw" -> Respond(a, 500, "false", <<>>)
                  [] OTHER -> [a EXCEPT !.pc = "ucheck"]]
    /\ UNCHANGED <<rows, seq, pkey, clock, faults, serial, table, file>>

UpdateCheck(c) ==
    /\ req[c].pc = "ucheck"
    /\ table
    /\ \E f \in FaultChoices :
        IF f
        THEN /\ req' = [req EXCEPT ![c] = Respond(Faulted(Sent(@)), 500, "false", <<>>)]
             /\ faults' = faults + 1
        ELSE /\ IF Match(req[c].id) = {}
                THEN req' = [req EXCEPT ![c] = Respond(Sent(@), 404, "absent", <<>>)]
                ELSE req' = [req EXCEPT ![c] = [Sent(@) EXCEPT !.pc = "update"]]
             /\ UNCHANGED faults
    /\ UNCHANGED <<rows, seq, pkey, clock, serial, table, file>>

\* Mutant: the UPDATE without its WHERE clause.
UpdateTargetsAll(id) == rows

\* WHERE id = $8 of the UPDATE
UpdateTargets(id) == Match(id)

UpdateWrite(c) ==
    /\ req[c].pc = "update"
    /\ table
    /\ \E f \in FaultChoices :
        IF f
        THEN /\ req' = [req EXCEPT ![c] = Respond(Faulted(Sent(@)), 500, "false", <<>>)]
             /\ faults' = faults + 1
             /\ UNCHANGED rows
        ELSE LET b == req[c].body
                 M == UpdateTargets(req[c].id)
                 U == {UpdateRow(r, b) : r \in M}
             IN  /\ UNCHANGED faults
                 /\ IF ~NumericOk(ToParam(b.price))
                    THEN /\ req' = [req EXCEPT ![c] = Respond(Sent(@), 500, "false", <<>>)]
                         /\ UNCHANGED rows
                    ELSE /\ rows' = (rows \ M) \cup U
                         /\ \E d \in FirstOf(U) :
                                req' = [req EXCEPT ![c] =
                                    Respond([Sent(@) EXCEPT !.affected = Cardinality(M)],
                                            200, "true", d)]
    /\ UNCHANGED <<seq, pkey, clock, serial, table, file>>

----------------------------------------------------------------------------
\* DELETE /courses/:id

StartDelete(c, id) ==
    /\ CanStart(c)
    /\ req' = [req EXCEPT ![c] = [Arrive(c, "delete", id, NoBody) EXCEPT !.pc = "dcheck"]]
    /\ UNCHANGED <<rows, seq, pkey, clock, faults, serial, table, file>>

DeleteCheck(c) ==
    /\ req[c].pc = "dcheck"
    /\ table
    /\ \E f \in FaultChoices :
        IF f
        THEN /\ req' = [req EXCEPT ![c] = Respond(Faulted(Sent(@)), 500, "false", <<>>)]
             /\ faults' = faults + 1
        ELSE /\ IF Match(req[c].id) = {}
                THEN req' = [req EXCEPT ![c] = Respond(Sent(@), 404, "absent", <<>>)]
                ELSE req' = [req EXCEPT ![c] = [Sent(@) EXCEPT !.pc = "delete"]]
             /\ UNCHANGED faults
    /\ UNCHANGED <<rows, seq, pkey, clock, serial, table, file>>

DeleteWrite(c) ==
    /\ req[c].pc = "delete"
    /\ table
    /\ \E f \in FaultChoices :
        IF f
        THEN /\ req' = [req EXCEPT ![c] = Respond(Faulted(Sent(@)), 500, "false", <<>>)]
             /\ faults' = faults + 1
             /\ UNCHANGED rows
        ELSE LET M == Match(req[c].id)
             IN  /\ UNCHANGED faults
                 /\ rows' = rows \ M
                 /\ \E d \in FirstOf(M) :
                        req' = [req EXCEPT ![c] =
                            Respond([Sent(@) EXCEPT !.removed = M], 200, "true", d)]
    /\ UNCHANGED <<seq, pkey, clock, serial, table, file>>

----------------------------------------------------------------------------
\* POST /courses/reset-sequence

\* Mutant: ids numbered from 0.
NewIdFromZero(i) == i

\* Mutant: ids numbered from 2.
NewIdFromTwo(i) == i + 2

\* const newId = i + 1   (i is the 0-based loop index)
NewId(i) == i + 1

\* Mutant: the sequence restarts at the row count.
RestartValueAtCount(n) == n

\* RESTART WITH ${courses.length + 1}
RestartValue(n) == n + 1

\* Mutant: the empty branch restarts the sequence at 2.
EmptyRestartValueTwo == 1 + 1

\* RESTART WITH 1 of the empty branch
EmptyRestartValue == 1

\* Mutant: the catch block answers without the restore attempt.
ResetOnErrorNoRestore(s, at) ==
    [s EXCEPT !.pc = "done", !.status = 500, !.success = "false", !.failedAt = at]

\* A statement inside try threw: control moves to the catch block.
ResetOnError(s, at) == [s EXCEPT !.pc = "restore", !.failedAt = at]

\* Mutant: the constraint can never be added.
AddRefusedAlways == TRUE

\* ALTER TABLE courses ADD CONSTRAINT courses_pkey PRIMARY KEY (id) is refused
\* when the constraint exists or two rows share an id.
AddRefused == pkey \/ HasDup(rows)

StartReset(c) ==
    /\ CanStart(c)
    /\ req' = [req EXCEPT ![c] = [Arrive(c, "reset", 0, NoBody) EXCEPT !.pc = "rselect"]]
    /\ UNCHANGED <<rows, seq, pkey, clock, faults, serial, table, file>>

ResetSelect(c) ==
    /\ req[c].pc = "rselect"
    /\ table
    /\ \E f \in FaultChoices :
        IF f
        THEN /\ req' = [req EXCEPT ![c] = ResetOnError(Faulted(Sent(@)), "select")]
             /\ faults' = faults + 1
        ELSE /\ \E s \in OrderByCreatedAt(rows) :
                    req' = [req EXCEPT ![c] =
                        [Sent(@) EXCEPT !.courses = s,
                                        !.seqAtSelect = IF serial THEN seq ELSE Absent,
                                        !.pc = IF Len(s) = 0 THEN "restart1" ELSE "drop"]]
             /\ UNCHANGED faults
    /\ UNCHANGED <<rows, seq, pkey, clock, serial, table, file>>

ResetRestartEmpty(c) ==
    /\ req[c].pc = "restart1"
    /\ table
    /\ \E f \in FaultChoices :
        IF f
        THEN /\ req' = [req EXCEPT ![c] = ResetOnError(Faulted(Sent(@)), "restart1")]
             /\ faults' = faults + 1
             /\ UNCHANGED seq
        ELSE /\ seq' = EmptyRestartValue
             /\ req' = [req EXCEPT ![c] = Respond(Sent(@), 200, "true", <<>>)]
             /\ UNCHANGED faults
    /\ UNCHANGED <<rows, pkey, clock, serial, table, file>>

ResetDrop(c) ==
    /\ req[c].pc = "drop"
    /\ table
    /\ \E f \in FaultChoices :
        /\ faults' = IF f THEN faults + 1 ELSE faults
        /\ IF f \/ ~pkey
           THEN /\ req' = [req EXCEPT ![c] =
                        ResetOnError(IF f THEN Faulted(Sent(@)) ELSE Sent(@), "drop")]
                /\ UNCHANGED pkey
           ELSE /\ pkey' = FALSE
                /\ req' = [req EXCEPT ![c] =
                        [Sent(@) EXCEPT !.pc = IF Len(req[c].courses) = 0 THEN "add" ELSE "loop"]]
    /\ UNCHANGED <<rows, seq, clock, serial, table, file>>

ResetLoop(c) ==
    /\ req[c].pc = "loop"
    /\ table
    /\ LET newId == NewId(req[c].i)
           oldId == req[c].courses[req[c].i + 1].id
           M == Match(oldId)
           clash == pkey /\ M # {} /\ \E r \in rows \ M : r.id = newId
       IN  \E f \in FaultChoices :
            /\ faults' = IF f THEN faults + 1 ELSE faults
            /\ IF f \/ clash
               THEN /\ req' = [req EXCEPT ![c] =
                            ResetOnError(IF f THEN Faulted(Sent(@)) ELSE Sent(@), "loop")]
                    /\ UNCHANGED rows
               ELSE /\ rows' = (rows \ M) \cup {RenumberRow(r, newId) : r \in M}
                    /\ req' = [req EXCEPT ![c] =
                            [Sent(@) EXCEPT !.i = @ + 1,
                                !.pc = IF req[c].i + 1 < Len(req[c].courses)
                                       THEN "loop" ELSE "add"]]
    /\ UNCHANGED <<seq, pkey, clock, serial, table, file>>

ResetAdd(c) ==
    /\ req[c].pc = "add"
    /\ table
    /\ \E f \in FaultChoices :
        /\ faults' = IF f THEN faults + 1 ELSE faults
        /\ IF f \/ AddRefused
           THEN /\ req' = [req EXCEPT ![c] =
                        ResetOnError(IF f THEN Faulted(Sent(@)) ELSE Sent(@), "add")]
                /\ UNCHANGED pkey
           ELSE /\ pkey' = TRUE
                /\ req' = [req EXCEPT ![c] = [Sent(@) EXCEPT !.pc = "restart"]]
    /\ UNCHANGED <<rows, seq, clock, serial, table, file>>

ResetRestart(c) ==
    /\ req[c].pc = "restart"
    /\ table
    /\ \E f \in FaultChoices :
        IF f
        THEN /\ req' = [req EXCEPT ![c] = ResetOnError(Faulted(Sent(@)), "restart")]
             /\ faults' = faults + 1
             /\ UNCHANGED seq
        ELSE /\ seq' = RestartValue(Len(req[c].courses))
             /\ req' = [req EXCEPT ![c] =
                    [Respond(Sent(@), 200, "true", <<>>) EXCEPT
                        !.totalCourses = Len(req[c].courses),
                        !.nextId = Len(req[c].courses) + 1]]
             /\ UNCHANGED faults
    /\ UNCHANGED <<rows, pkey, clock, serial, table, file>>

\* catch: try { ADD CONSTRAINT } catch { log }; then res.status(500)
ResetRestore(c) ==
    /\ req[c].pc = "restore"
    /\ table
    /\ \E f \in FaultChoices :
        /\ faults' = IF f THEN faults + 1 ELSE faults
        /\ pkey' = IF f \/ AddRefused THEN pkey ELSE TRUE
        /\ req' = [req EXCEPT ![c] =
                [Respond(Sent(@), 500, "false", <<>>) EXCEPT !.restoreTried = TRUE]]
    /\ UNCHANGED <<rows, seq, clock, serial, table, file>>

----------------------------------------------------------------------------
\* Any other method or path: the 404 handler answers at once.
NotFoundRoute(c) ==
    /\ CanStart(c)
    /\ req' = [req EXCEPT ![c] = Respond(Arrive(c, "unmatched", 0, NoBody), 404, "absent", <<>>)]
    /\ UNCHANGED <<rows, seq, pkey, clock, faults, serial, table, file>>

----------------------------------------------------------------------------
\* The response has been delivered; the slot is free for the next request.
Retire(c) ==
    /\ req[c].pc = "done"
    /\ req' = [req EXCEPT ![c] = Idle]
    /\ UNCHANGED <<rows, seq, pkey, clock, faults, serial, table, file>>

Next ==
    \E c \in Clients :
        \/ StartList(c)
        \/ ListSelect(c)
        \/ \E id \in Ids : StartGet(c, id)
        \/ GetSelect(c)
        \/ \E b \in Bodies : StartCreate(c, b)
        \/ CreateInsert(c)
        \/ \E id \in Ids : \E b \in UpdateBodies : StartUpdate(c, id, b)
        \/ UpdateCheck(c)
        \/ UpdateWrite(c)
        \/ \E id \in Ids : StartDelete(c, id)
        \/ DeleteCheck(c)
        \/ DeleteWrite(c)
        \/ StartReset(c)
        \/ ResetSelect(c)
        \/ ResetRestartEmpty(c)
        \/ ResetDrop(c)
        \/ ResetLoop(c)
        \/ ResetAdd(c)
        \/ ResetRestart(c)
        \/ ResetRestore(c)
        \/ NotFoundRoute(c)
        \/ Retire(c)

\* Requests of several clients interleave at every await.
Spec == Init /\ [][Next]_vars

\* Requests are served strictly one after the other.
SpecSeq == InitSeq /\ [][Next]_vars

-----------------------------------------------------------------------------
\* POST /courses/recreate-table, and what every other statement does while
\* the table is gone.

\* Mutant: the sequence of a new table starts at 2.
SerialStartTwo == 1 + 1

\* id SERIAL: the sequence of a new table hands out 1 first.
SerialStart == 1

StartRecreate(c) ==
    /\ CanStart(c)
    /\ req' = [req EXCEPT ![c] = [Arrive(c, "recreate", 0, NoBody) EXCEPT !.pc = "tdrop"]]
    /\ UNCHANGED <<rows, seq, pkey, clock, faults, serial, table, file>>

\* DROP TABLE IF EXISTS courses: the rows, the constraint and the sequence
\* owned by the id column go with the table; no error when there is no table.
RecreateDrop(c) ==
    /\ req[c].pc = "tdrop"
    /\ \E f \in FaultChoices :
        IF f
        THEN /\ req' = [req EXCEPT ![c] = Respond(Faulted(Sent(@)), 500, "false", <<>>)]
             /\ faults' = faults + 1
             /\ UNCHANGED <<rows, seq, pkey, table, file>>
        ELSE /\ rows' = {}
             /\ seq' = 1
             /\ pkey' = FALSE
             /\ table' = FALSE
             /\ req' = [req EXCEPT ![c] = [Sent(@) EXCEPT !.pc = "tcreate"]]
             /\ UNCHANGED faults
    /\ UNCHANGED <<clock, serial, file>>

\* CREATE TABLE courses (id SERIAL PRIMARY KEY, ...): refused when a table of
\* that name exists; otherwise an empty table, a new sequence and the key.
RecreateCreate(c) ==
    /\ req[c].pc = "tcreate"
    /\ \E f \in FaultChoices :
        /\ faults' = IF f THEN faults + 1 ELSE faults
        /\ IF f \/ table
           THEN /\ req' = [req EXCEPT ![c] =
                        Respond(IF f THEN Faulted(Sent(@)) ELSE Sent(@), 500, "false", <<>>)]
                /\ UNCHANGED <<rows, seq, pkey, table, file>>
           ELSE /\ rows' = {}
                /\ seq' = SerialStart
                /\ pkey' = TRUE
                /\ table' = TRUE
                /\ req' = [req EXCEPT ![c] = Respond(Sent(@), 200, "true", <<>>)]
    /\ UNCHANGED <<clock, serial, file>>

\* Positions at which the next step is a statement on table courses or on its
\* sequence.
StatementPcs ==
    {"list", "get", "insert", "ucheck", "update", "dcheck", "delete",
     "rselect", "restart1", "drop", "loop", "add", "restart", "restore"}

\* The statement of slot c is sent while the table does not exist: it throws
\* (relation "courses" does not exist) and the handler's catch block runs.
MissingTable(c) ==
    /\ ~table
    /\ req[c].pc \in StatementPcs
    /\ LET pc == req[c].pc
       IN  req' = [req EXCEPT ![c] =
                CASE pc \in {"list", "get"} -> Respond(Sent(@), 500, "absent", <<>>)
                  [] pc \in {"insert", "ucheck", "update", "dcheck", "delete"} ->
                        Respond(Sent(@), 500, "false", <<>>)
                  [] pc = "rselect" -> ResetOnError(Sent(@), "select")
                  [] pc \in {"restart1", "drop", "loop", "add", "restart"} ->
                        ResetOnError(Sent(@), pc)
                  [] OTHER ->
                        [Respond(Sent(@), 500, "false", <<>>) EXCEPT !.restoreTried = TRUE]]
    /\ UNCHANGED <<rows, seq, pkey, clock, faults, serial, table, file>>

NextRecreate ==
    \/ Next
    \/ \E c \in Clients :
        \/ StartRecreate(c)
        \/ RecreateDrop(c)
        \/ RecreateCreate(c)
        \/ MissingTable(c)

\* The server with its recreate-table route in use, requests interleaved.
SpecRecreate == Init /\ [][NextRecreate]_vars

----------------------------------------------------------------------------
\* Vocabulary of the properties.

Done(c, op) == req[c].op = op /\ req[c].pc = "done"

\* The reset-sequence request of slot c has read its snapshot `courses`.
Selected(c) == req[c].op = "reset" /\ req[c].stmts >= 1 /\ req[c].failedAt # "select"

\* A row without its id column.
NonId(r) ==
    [created_at |-> r.created_at, title |-> r.title, description |-> r.description,
     long_description |-> r.long_description, duration |-> r.duration,
     price |-> r.price, level |-> r.level, image_url |-> r.image_url]

\* Title absent, empty or made of white space only.
BlankTitle(v) ==
    \/ v.t = "undef"
    \/ v.t = "str" /\ \A k \in 1..Len(v.s) : v.s[k] \in WhiteSpace

\* C1: served one at a time, a reset-sequence that answers 200 over N >= 1
\* rows leaves ids exactly 1..N, the k-th row by created_at holding id k, and
\* the sequence at N+1 with no row in the way, so the next create gets N+1.
C1_RenumberPost ==
    \A c \in Clients :
        (Done(c, "reset") /\ req[c].status = 200 /\ Len(req[c].courses) >= 1) =>
            LET cs == req[c].courses
                N == Len(cs)
            IN  /\ Cardinality(rows) = N
                /\ {r.id : r \in rows} = 1..N
                /\ \A k \in 1..N :
                        \E r \in rows : r.created_at = cs[k].created_at /\ r.id = k
                /\ \A a \in rows : \A b \in rows :
                        a.created_at < b.created_at => a.id < b.id
                /\ seq = N + 1
                /\ pkey
                /\ Match(seq) = {}

\* A successful pass over at least two rows that had a gap in their ids.
C1_Witness ==
    \E c \in Clients :
        /\ Done(c, "reset") /\ req[c].status = 200
        /\ Len(req[c].courses) >= 2
        /\ \E k \in 1..Len(req[c].courses) : req[c].courses[k].id > k + 1

\* C2: no two live rows ever share an id, in any interleaving.
C2_UniqueIds == ~HasDup(rows)

\* C3: served one at a time, from the moment reset-sequence has read the table
\* to its response, the table holds the same number of rows and every row
\* keeps all its columns other than id.
C3_ResetFrame ==
    \A c \in Clients :
        Selected(c) =>
            /\ Cardinality(rows) = Len(req[c].courses)
            /\ {NonId(r) : r \in rows} =
               {NonId(req[c].courses[k]) : k \in 1..Len(req[c].courses)}

\* A finished pass that changed an id of a row whose optional columns are set.
C3_Witness ==
    \E c \in Clients :
        /\ Done(c, "reset") /\ req[c].status = 200
        /\ \E k \in 1..Len(req[c].courses) :
                /\ req[c].courses[k].id # k
                /\ req[c].courses[k].description # Null

\* C4: a reset-sequence in which a loop UPDATE, the ADD CONSTRAINT or the
\* ALTER SEQUENCE failed answers only after the restore attempt, and with 500.
C4_RestoreThenError ==
    \A c \in Clients :
        (req[c].op = "reset" /\ req[c].failedAt \in {"loop", "add", "restart"}) =>
            /\ req[c].pc \in {"restore", "done"}
            /\ req[c].pc = "done" => (req[c].restoreTried /\ req[c].status = 500)

\* The ADD CONSTRAINT failed and so did the restore: answered 500 all the same.
C4_Witness ==
    \E c \in Clients :
        /\ Done(c, "reset") /\ req[c].failedAt = "add"
        /\ req[c].restoreTried /\ req[c].status = 500
        /\ ~pkey

\* C5: served one at a time, a reset-sequence that read an empty table never
\* reaches the DROP CONSTRAINT, changes no row, and unless a statement fails
\* answers 200 with the sequence at 1.
C5_EmptyReset ==
    \A c \in Clients :
        (Selected(c) /\ Len(req[c].courses) = 0) =>
            /\ req[c].pc \in {"restart1", "restore", "done"}
            /\ rows = {}
            /\ (req[c].pc = "done" /\ ~req[c].faulted) =>
                    /\ req[c].status = 200
                    /\ req[c].stmts = 2
                    /\ seq = 1
                    /\ Match(seq) = {}

\* An empty table whose sequence had advanced is reset.
C5_Witness ==
    \E c \in Clients :
        /\ Done(c, "reset") /\ Selected(c) /\ Len(req[c].courses) = 0
        /\ req[c].status = 200
        /\ clock >= 1

\* C6: every 200 response of reset-sequence carries totalCourses = N and
\* nextId = N+1, and nextId is the id the next create receives.
C6_ResetResponse ==
    \A c \in Clients :
        (Done(c, "reset") /\ req[c].status = 200) =>
            /\ req[c].totalCourses = Len(req[c].courses)
            /\ req[c].nextId = Len(req[c].courses) + 1
            /\ req[c].nextId = seq

\* C7: a POST /courses whose title is absent, empty or blank is answered 400 in
\* the synchronous segment in which it arrives, with no statement sent, and rows, sequence and
\* constraint untouched.
C7_BlankTitleRejected ==
    [][\A c \in Clients :
        (req[c].pc = "idle" /\ req'[c].op = "create" /\ BlankTitle(req'[c].body.title)) =>
            /\ req'[c].pc = "done"
            /\ req'[c].status = 400
            /\ req'[c].stmts = 0
            /\ rows' = rows
            /\ seq' = seq
            /\ pkey' = pkey]_vars

\* A blank (white space only) title was answered 400.
C7_Witness ==
    \E c \in Clients :
        /\ Done(c, "create") /\ req[c].status = 400
        /\ req[c].body.title = Str(<<" ", " ">>)

\* C8: served one at a time and without storage faults, a get, update or
\* delete of an id no row held changes no row and is answered 404, whatever
\* the body.
C8_NotFoundAlways ==
    [][\A c \in Clients :
        (/\ serial
         /\ req'[c] # req[c]
         /\ req'[c].op \in {"get", "update", "delete"}
         /\ ~req'[c].held
         /\ ~req'[c].faulted) =>
            /\ rows' = rows
            /\ req'[c].pc = "done" => req'[c].status = 404]_vars

\* C9: served one at a time, GET /courses answers with exactly the live rows,
\* each once, in strictly ascending id order.
C9_ListSorted ==
    \A c \in Clients :
        (Done(c, "list") /\ req[c].status = 200) =>
            LET d == req[c].data
            IN  /\ Len(d) = Cardinality(rows)
                /\ {d[k] : k \in 1..Len(d)} = rows
                /\ \A k \in 1..(Len(d) - 1) : d[k].id < d[k + 1].id

\* A listing of at least two survivors after a delete left a gap.
C9_Witness ==
    \E c \in Clients :
        /\ Done(c, "list") /\ req[c].status = 200
        /\ Len(req[c].data) >= 2
        /\ \E k \in 1..(Len(req[c].data) - 1) :
                req[c].data[k + 1].id > req[c].data[k].id + 1

\* C10: a DELETE answered 200 removed exactly one row, the one holding the
\* requested id, and returns that row.
C10_DeleteExactlyOne ==
    \A c \in Clients :
        (Done(c, "delete") /\ req[c].status = 200) =>
            /\ Cardinality(req[c].removed) = 1
            /\ \A r \in req[c].removed : r.id = req[c].id /\ req[c].data = <<r>>

----------------------------------------------------------------------------
\* Slot c takes this step as request op.
StepOf(c, op) == req'[c] # req[c] /\ req'[c].op = op

\* C11: every step of a PUT /courses/:id, the one that ends it with 200
\* included, leaves every row whose id is not the requested one as it was, and
\* leaves the number of rows and the sequence unchanged.
C11_UpdateFrame ==
    [][\A c \in Clients :
        StepOf(c, "update") =>
            /\ {r \in rows' : r.id # req'[c].id} = {r \in rows : r.id # req'[c].id}
            /\ Cardinality(rows') = Cardinality(rows)
            /\ seq' = seq]_vars

\* An update answered 200 changed its row while another row is stored.
C11_Witness ==
    \E c \in Clients :
        /\ Done(c, "update") /\ req[c].status = 200
        /\ req[c].affected = 1
        /\ \E r \in rows : r.id # req[c].id /\ r.title # req[c].data[1].title

\* Column value col is what request value v asks for: NULL for a field left
\* out, otherwise the characters sent.
Holds(col, v) == IF v.t = "undef" THEN col = Null ELSE col.t # "null" /\ col.s = v.s

\* Row r carries the seven mutable fields of body b.
HoldsBody(r, b) ==
    /\ Holds(r.title, b.title)
    /\ Holds(r.description, b.description)
    /\ Holds(r.long_description, b.long_description)
    /\ Holds(r.duration, b.duration)
    /\ Holds(r.price, b.price)
    /\ Holds(r.level, b.level)
    /\ Holds(r.image_url, b.image_url)

\* C12: served one at a time, the step in which a PUT /courses/:id answers 200
\* turns the row of that id into a row with the same id and created_at whose
\* seven mutable columns are those of the request (NULL where the request
\* leaves a field out), and the response carries that row.
C12_UpdateOverwrites ==
    [][\A c \in Clients :
        (serial /\ req[c].pc = "update" /\ StepOf(c, "update") /\ req'[c].status = 200) =>
            \E old \in rows : \E new \in rows' :
                /\ old.id = req[c].id
                /\ new.id = old.id
                /\ new.created_at = old.created_at
                /\ HoldsBody(new, req[c].body)
                /\ req'[c].data = <<new>>
                /\ rows' = (rows \ {old}) \cup {new}]_vars

\* An update that leaves the optional fields out was answered 200, and the
\* stored row holds NULL in them.
C12_Witness ==
    \E c \in Clients :
        /\ Done(c, "update") /\ req[c].status = 200
        /\ req[c].body.description = Undef
        /\ req[c].data[1] \in rows
        /\ req[c].data[1].description = Null
        /\ req[c].data[1].price = Null

\* Course object j shows, for every field the request body b sent, the very
\* value sent (a string stays that string, a number that number).
SameAsSent(j, b) ==
    /\ j.title = b.title
    /\ b.description = Undef \/ j.description = b.description
    /\ b.long_description = Undef \/ j.long_description = b.long_description
    /\ b.duration = Undef \/ j.duration = b.duration
    /\ b.price = Undef \/ j.price = b.price
    /\ b.level = Undef \/ j.level = b.level
    /\ b.image_url = Undef \/ j.image_url = b.image_url

\* C13: served one at a time, once a POST /courses has answered 201, what
\* GET /courses/:id reads and sends for the returned id (SELECT .. WHERE id,
\* rows[0], as parsed by the driver) has the seven field values that were sent.
C13_CreateGetRoundTrip ==
    \A c \in Clients :
        (serial /\ Done(c, "create") /\ req[c].status = 201) =>
            \A d \in FirstOf(Match(req[c].data[1].id)) :
                /\ Len(d) = 1
                /\ SameAsSent(Parsed(d[1]), req[c].body)

\* C14: in every reachable state every stored row has a title that is
\* present and has at least one character that is not white space, whatever
\* bodies the create and update requests carried.
C14_TitleNeverBlank ==
    \A r \in rows :
        /\ r.title.t = "text"
        /\ \E k \in 1..Len(r.title.s) : r.title.s[k] \notin WhiteSpace

\* An update carrying a white-space-only title has been turned away with 400
\* while a row is stored.
C14_Witness ==
    \E c \in Clients :
        /\ Done(c, "update")
        /\ req[c].status = 400
        /\ req[c].body.title.t = "str"
        /\ BlankTitle(req[c].body.title)
        /\ Match(req[c].id) # {}

\* C15: every response sent with a status of 400 or above (validation 400,
\* not-found 404, unmatched-route 404, storage-failure 500) carries an error
\* field and success = false.
C15_ErrorEnvelope ==
    \A c \in Clients :
        (req[c].pc = "done" /\ req[c].status >= 400) =>
            /\ req[c].error
            /\ req[c].success = "false"

-----------------------------------------------------------------------------
\* The server of src/unnamed/part_000, lines 57-265: the same GET /courses and
\* POST /courses handlers over the same table, and a bootstrap that drops the
\* table and creates it again at every process start.

\* Process start with no request in flight: DROP TABLE IF EXISTS courses, then
\* CREATE TABLE courses (id SERIAL PRIMARY KEY, ...). Both statements succeed;
\* the new table is empty, its sequence is new and its primary key in place.
BootDropRecreate ==
    /\ \A c \in Clients : req[c].pc = "idle"
    /\ rows' = {}
    /\ seq' = 1
    /\ pkey' = TRUE
    /\ UNCHANGED <<clock, faults, req, serial, table, file>>

NextDropVariant ==
    \/ BootDropRecreate
    \/ \E c \in Clients :
        \/ StartList(c)
        \/ ListSelect(c)
        \/ \E b \in Bodies : StartCreate(c, b)
        \/ CreateInsert(c)
        \/ Retire(c)

SpecDropVariant == Init /\ [][NextDropVariant]_vars

\* C16: a process start finding the courses table in place leaves every row,
\* every id and the auto-increment counter as they were.
C16_BootKeepsData ==
    [][BootDropRecreate => (rows' = rows /\ seq' = seq)]_vars

-----------------------------------------------------------------------------
\* Correct numbering of table R with counter s: ids are exactly 1..N in
\* creation order and the counter is N+1, N being the number of rows stored.
Numbered(R, s) ==
    /\ ~HasDup(R)
    /\ {r.id : r \in R} = 1..Cardinality(R)
    /\ \A r1, r2 \in R : r1.created_at < r2.created_at => r1.id < r2.id
    /\ s = Cardinality(R) + 1

\* The rows (by identity) that the reset-sequence request of slot c selected.
Snapshot(c) == {req[c].courses[k].created_at : k \in 1..Len(req[c].courses)}

\* Set T is set S with exactly one element more.
OneMore(S, T) == S \subseteq T /\ Cardinality(T) = Cardinality(S) + 1

\* C17: whenever a reset-sequence answers success while the rows then stored
\* are the rows it selected plus one (a create came in between) or minus one
\* (a delete came in between), the numbering it leaves is incorrect; with
\* requests interleaved such a step exists.
C17_RaceBreaksNumbering ==
    [][\A c \in Clients :
        (/\ req[c].op = "reset"
         /\ req[c].pc # "done"
         /\ req'[c].pc = "done"
         /\ req'[c].status = 200
         /\ \/ OneMore(Snapshot(c), {r.created_at : r \in rows'})
            \/ OneMore({r.created_at : r \in rows'}, Snapshot(c))) =>
            ~Numbered(rows', seq')]_vars

\* A reset-sequence over at least one row has answered success, a create has
\* answered 201 with a row the reset never selected, exactly that row was
\* added to the selected ones, and the numbering is incorrect.
C17_Witness ==
    \E c, d \in Clients :
        /\ Done(c, "reset")
        /\ req[c].status = 200
        /\ req[c].success = "true"
        /\ Len(req[c].courses) >= 1
        /\ Done(d, "create")
        /\ req[d].status = 201
        /\ req[d].data[1].created_at \notin Snapshot(c)
        /\ {r.created_at : r \in rows} = Snapshot(c) \cup {req[d].data[1].created_at}
        /\ ~Numbered(rows, seq)


\* A reset-sequence request is between its arrival and its response.
ResetInFlight == \E c \in Clients : req[c].op = "reset" /\ req[c].pc # "done"

\* C18: with no storage statement failing on its own, in every state in which
\* no reset-sequence request is in flight the primary-key constraint on id is
\* in place, whatever resets, creates and deletes were interleaved before.
C18_KeyInPlaceAtRest ==
    (faults = 0 /\ ~ResetInFlight) => pkey


\* The rows that the reset-sequence request of slot c selected, as a set.
SnapshotRows(c) == {req[c].courses[k] : k \in 1..Len(req[c].courses)}

\* C19: served one at a time, every step of a reset-sequence keeps the number
\* of rows and their non-id fields; rows change only in a loop UPDATE that
\* succeeds; and once a statement of the try block has failed, a restore that
\* is not itself made to fail ends in a 500 answer with the primary key in
\* place, all ids distinct, the selected rows still stored with their non-id
\* fields, and, when no loop UPDATE had succeeded, with their ids as well.
C19_OneFailureRecovers ==
    [][\A c \in Clients :
        (serial /\ StepOf(c, "reset")) =>
            /\ Cardinality(rows') = Cardinality(rows)
            /\ {NonId(r) : r \in rows'} = {NonId(r) : r \in rows}
            /\ (req[c].pc # "loop" \/ req'[c].pc = "restore") => rows' = rows
            /\ (req[c].pc = "restore" /\ faults' = faults) =>
                    /\ req'[c].pc = "done"
                    /\ req'[c].status = 500
                    /\ req'[c].success = "false"
                    /\ pkey'
                    /\ ~HasDup(rows')
                    /\ Selected(c) =>
                        /\ {NonId(r) : r \in rows'} = {NonId(r) : r \in SnapshotRows(c)}
                        /\ Cardinality(rows') = Len(req[c].courses)
                        /\ req[c].i = 0 => rows' = SnapshotRows(c)]_vars

\* The second loop UPDATE of a reset-sequence failed after the first had given
\* a row a new id; the restore succeeded and the answer was 500.
C19_Witness ==
    \E c \in Clients :
        /\ serial
        /\ Done(c, "reset")
        /\ req[c].failedAt = "loop"
        /\ req[c].faulted
        /\ req[c].i = 1
        /\ req[c].courses[1].id # 1
        /\ faults = 1
        /\ req[c].restoreTried
        /\ req[c].status = 500
        /\ pkey
        /\ rows # SnapshotRows(c)


\* C20: whatever was interleaved between its existence check and its UPDATE,
\* a PUT /courses/:id that answers 200 has updated exactly one row and carries
\* that row, with the requested id, in its data field.
C20_UpdateOkMeansUpdated ==
    \A c \in Clients :
        (Done(c, "update") /\ req[c].status = 200) =>
            /\ req[c].affected = 1
            /\ Len(req[c].data) = 1
            /\ req[c].data[1].id = req[c].id


\* C21: served one at a time, every loop UPDATE of a reset-sequence that
\* goes through finds exactly one row with the old id, that row being the one
\* selected at this position and not one renumbered earlier in the pass, and
\* neither the state before nor the state after the UPDATE holds two rows with
\* the same id, although the constraint is dropped.
C21_LoopUpdatesOneRow ==
    [][\A c \in Clients :
        (/\ serial
         /\ req[c].op = "reset"
         /\ req[c].pc = "loop"
         /\ req'[c].i = req[c].i + 1) =>
            LET old == req[c].courses[req[c].i + 1]
            IN  /\ Cardinality(Match(old.id)) = 1
                /\ \A r \in Match(old.id) : r.created_at = old.created_at
                /\ Cardinality(rows' \ rows) <= 1
                /\ ~pkey
                /\ ~HasDup(rows)
                /\ ~HasDup(rows')]_vars

\* In the middle of a pass served alone: the first loop UPDATE has given the
\* oldest row a new id, the constraint is dropped, and a further row waits.
C21_Witness ==
    \E c \in Clients :
        /\ serial
        /\ req[c].op = "reset"
        /\ req[c].pc = "loop"
        /\ req[c].i = 1
        /\ req[c].courses[1].id # 1
        /\ ~pkey
        /\ \E r \in rows : r.created_at = req[c].courses[1].created_at /\ r.id = 1


\* C22: in every state in which no reset-sequence request is in flight, the
\* next value of the id sequence is greater than every stored id, whatever
\* creates, deletes and resets were interleaved before.
C22_CounterAboveIds ==
    ~ResetInFlight => \A r \in rows : r.id < seq


\* C23: served one at a time, a reset-sequence that answers success leaves the
\* table correctly numbered and reports its row count and its counter; and
\* no step of a reset-sequence started on a correctly numbered table (as the
\* one right after a successful reset-sequence is) changes a row or the
\* counter, so the second answer reports the same totalCourses and nextId.
C23_ResetIdempotent ==
    [][\A c \in Clients :
        (serial /\ StepOf(c, "reset")) =>
            /\ (req'[c].pc = "done" /\ req'[c].status = 200) =>
                    /\ Numbered(rows', seq')
                    /\ Len(req[c].courses) >= 1 =>
                            /\ req'[c].totalCourses = Cardinality(rows')
                            /\ req'[c].nextId = seq'
                    /\ Len(req[c].courses) = 0 =>
                            /\ req'[c].totalCourses = Absent
                            /\ req'[c].nextId = Absent
            /\ Numbered(rows, seq) => (rows' = rows /\ seq' = seq)]_vars

\* A reset-sequence answered success over two or more rows that it found
\* numbered as a successful pass leaves them (ids 1..N in creation order, the
\* counter at N+1, some id below the one its row was created with): table and
\* counter are as it found them, and the answer reports N and N+1.
C23_Witness ==
    \E c \in Clients :
        /\ serial
        /\ Done(c, "reset")
        /\ req[c].status = 200
        /\ Len(req[c].courses) >= 2
        /\ \A k \in 1..Len(req[c].courses) : req[c].courses[k].id = k
        /\ req[c].courses[1].created_at > 1
        /\ req[c].seqAtSelect = Len(req[c].courses) + 1
        /\ seq = req[c].seqAtSelect
        /\ rows = SnapshotRows(c)
        /\ req[c].totalCourses = Len(req[c].courses)
        /\ req[c].nextId = seq


\* C24: whatever else is in flight, the step in which recreate-table answers
\* success leaves an existing, empty table with its primary key in place and
\* its sequence at 1, so that GET /courses reads the empty sequence and the
\* next insert takes id 1.
C24_RecreateLeavesFreshTable ==
    [][\A c \in Clients :
        (/\ req[c].op = "recreate"
         /\ req[c].pc # "done"
         /\ req'[c].pc = "done"
         /\ req'[c].status = 200) =>
            /\ table'
            /\ pkey'
            /\ rows' = {}
            /\ OrderByIdAsc(rows') = {<<>>}
            /\ seq' = 1
            /\ \A b \in Bodies : InsertRow(b, seq', clock' + 1).id = 1]_vars

\* recreate-table has answered success after its two statements, the table is
\* empty with key and sequence new, and a create answered 201 earlier with id 1
\* for a row that is gone.
C24_Witness ==
    \E c, d \in Clients :
        /\ Done(c, "recreate")
        /\ req[c].status = 200
        /\ req[c].success = "true"
        /\ req[c].stmts = 2
        /\ Done(d, "create")
        /\ req[d].status = 201
        /\ req[d].data[1].id = 1
        /\ rows = {}
        /\ seq = 1
        /\ pkey
        /\ table

-----------------------------------------------------------------------------
\* The file-backed server of src/unnamed/part_000, lines 1-55: the courses live
\* in data.json, which every request reads and POST /courses writes back whole.
\* JSON keeps a string a string and a number a number, so what loadData reads
\* is what saveData wrote.

\* JavaScript numbers met here: a natural number, -Infinity, NaN.
JsInt(n) == [k |-> "int", n |-> n]
NegInfinity == [k |-> "-inf", n |-> 0]
NaN == [k |-> "nan", n |-> 0]

DigitChars == <<"0", "1", "2", "3", "4", "5", "6", "7", "8", "9">>

DigitValue(ch) == CHOOSE d \in 0..9 : DigitChars[d + 1] = ch

RECURSIVE StringToNat(_)
StringToNat(s) ==
    IF s = <<>> THEN 0
    ELSE 10 * StringToNat(SubSeq(s, 1, Len(s) - 1)) + DigitValue(s[Len(s)])

RECURSIVE NatToString(_)
NatToString(n) ==
    IF n < 10 THEN <<DigitChars[n + 1]>>
    ELSE Append(NatToString(n \div 10), DigitChars[(n % 10) + 1])

\* Number(v): undefined is NaN; a string is trimmed, then "" is 0, "-Infinity"
\* is -Infinity, decimal digits are their value and anything else is NaN.
Number(v) ==
    CASE v.t = "undef" -> NaN
      [] v.t = "num" -> JsInt(StringToNat(v.s))
      [] OTHER ->
            LET s == Trim(v.s)
            IN  IF s = <<>> THEN JsInt(0)
                ELSE IF s = <<"-Infinity">> THEN NegInfinity
                ELSE IF \A k \in 1..Len(s) : s[k] \in Digits THEN JsInt(StringToNat(s))
                ELSE NaN

\* Math.max of two numbers: NaN if either is NaN.
Max2(a, b) ==
    IF a.k = "nan" \/ b.k = "nan" THEN NaN
    ELSE IF a.k = "-inf" THEN b
    ELSE IF b.k = "-inf" THEN a
    ELSE IF a.n >= b.n THEN a ELSE b

\* Math.max(...xs): -Infinity for no argument.
RECURSIVE MathMax(_)
MathMax(xs) ==
    IF xs = <<>> THEN NegInfinity ELSE Max2(Head(xs), MathMax(Tail(xs)))

\* x + 1
PlusOne(x) == IF x.k = "int" THEN JsInt(x.n + 1) ELSE x

\* Number.prototype.toString
NumberToString(x) ==
    CASE x.k = "nan" -> <<"NaN">>
      [] x.k = "-inf" -> <<"-Infinity">>
      [] OTHER -> NatToString(x.n)

\* (Math.max(...courses.map(c => Number(c.id))) + 1).toString()
FileNewId(courses) ==
    Str(NumberToString(PlusOne(MathMax([k \in 1..Len(courses) |-> Number(courses[k].id)]))))

\* { id: newId, ...req.body }: an id in the body replaces the new one.
NewCourse(courses, b) ==
    [id |-> IF b.id = Undef THEN FileNewId(courses) ELSE b.id, title |-> b.title]

\* Request bodies: without an id, and with one.
FileBodies ==
    {[id |-> Undef, title |-> Str(<<"A">>)],
     [id |-> Undef, title |-> Undef],
     [id |-> Str(<<"7">>), title |-> Str(<<"A">>)]}

\* Contents of data.json at process start.
FileStarts ==
    {<<>>,
     <<[id |-> Str(<<"1">>), title |-> Str(<<"A">>)]>>,
     <<[id |-> Str(<<"9">>), title |-> Str(<<"A">>)],
       [id |-> Str(<<"1">>), title |-> Str(<<"A">>)]>>}

InitFile ==
    /\ rows = {}
    /\ seq = 1
    /\ pkey = TRUE
    /\ clock = 0
    /\ faults = 0
    /\ req = [c \in Clients |-> Idle]
    /\ serial = FALSE
    /\ table = TRUE
    /\ file \in FileStarts

\* POST /courses: loadData, push the new course, saveData, 201; no await, so
\* the handler is one step.
FilePost(b) ==
    /\ Len(file) < MaxFileLen
    /\ file' = Append(file, NewCourse(file, b))
    /\ UNCHANGED <<rows, seq, pkey, clock, faults, req, serial, table>>

NextFile == \E b \in FileBodies : FilePost(b)

SpecFile == InitFile /\ [][NextFile]_vars

\* C25: every POST /courses of the file-backed server stores a course whose id
\* differs from every id stored before, whatever the stored list, the empty
\* one included.
C25_FileNewIdFresh ==
    [][(Len(file') = Len(file) + 1) =>
        \A k \in 1..Len(file) : file[k].id # file'[Len(file')].id]_vars

====
